---- MODULE Spec2Model ----
(***************************************************************************)
(* Model of mistralrs-pyo3/src/lib.rs: the lazily initialised device       *)
(* handle (get_device) and the synchronous request gateway                 *)
(* (MistralRunner::add_request) in front of the engine's request queue.    *)
(*                                                                         *)
(* Option<T> values are sequences: <<>> is None and <<v>> is Some(v).      *)
(* Texts are sequences of one-character strings.                           *)
(***************************************************************************)
EXTENDS Integers, Sequences, FiniteSets, TLC

\* ------------------------------------------------------------------ bounds
MaxDevCalls == 2      \* get_device calls made by each thread
MaxCalls == 2         \* add_request calls made by each thread
MaxTextLen == 1       \* length of a payload text produced by the engine

Threads == {"t1", "t2"}
NoThread == "none"

None == <<>>
Some(v) == <<v>>
IsSome(o) == Len(o) = 1
Unwrap(o) == o[1]

VARIABLES
  \* ---- device resolver (lib.rs 26-50)
  DEVICE,       \* contents of the CUDA_DEVICE / METAL_DEVICE mutex
  dev_lock,     \* thread holding that mutex, or NoThread
  dpc,          \* position of each thread in get_device
  dres,         \* Result<Device> returned by the thread's current call
  dcalls,       \* get_device calls started by each thread
  probes,       \* executions of Device::cuda_if_available / new_metal
  ok_probes,    \* executions that returned Ok
  handed,       \* every handle returned as Ok(..) so far
  dlog,         \* per call: did it probe, and what was in the slot at entry
  \* ---- gateway (lib.rs 76-120)
  pc,           \* position of each thread in add_request
  gil,          \* thread inside Python::with_gil, or NoThread
  calls,        \* add_request calls started by each thread
  next_chan,    \* number of channels created so far
  rx,           \* receiving half owned by the thread's current call
  chans,        \* live reply channels: id -> [buf, tx, reply_to]
  req,          \* the borrowed Request of the call
  mreq,         \* the _Request built by the call
  outcome,      \* PyResult<String> (or panic) the call ended with
  log,          \* per call history: submissions, receptions
  \* ---- engine side of the queue (external collaborator)
  queue,        \* requests sent and not yet taken by the engine
  queue_open,   \* the engine still owns the Receiver of the queue
  inflight      \* requests the engine has taken and not yet answered

dev_vars == <<DEVICE, dev_lock, dpc, dres, dcalls, probes, ok_probes,
              handed, dlog>>
gw_vars == <<pc, gil, calls, next_chan, rx, chans, req, mreq, outcome, log,
             queue, queue_open, inflight>>
vars == <<dev_vars, gw_vars>>

\* =================================================================
\* Device resolver
\* =================================================================

\* What a probe can return.  Device::cuda_if_available(0) gives the CUDA
\* device, the CPU device when CUDA is not available, or an error;
\* Device::new_metal(0) (feature "metal") gives the Metal device or an error.
\* Every created device has its own identity (n = the number of the probe
\* that made it).
ProbeKinds == {"Accelerator", "Cpu", "Err"}

DeviceOf(kind, n) == [kind |-> kind, id |-> n]
ErrDevice == [kind |-> "Err", id |-> 0]

Ok(v) == [tag |-> "Ok", val |-> v]
Err(v) == [tag |-> "Err", val |-> v]

NoDlog == [probed |-> FALSE, cached |-> FALSE]

DevInit ==
  /\ DEVICE = None
  /\ dev_lock = NoThread
  /\ dpc = [t \in Threads |-> "idle"]
  /\ dres = [t \in Threads |-> None]
  /\ dcalls = [t \in Threads |-> 0]
  /\ probes = 0
  /\ ok_probes = 0
  /\ handed = {}
  /\ dlog = [t \in Threads |-> NoDlog]

\* A thread enters get_device.
get_device_call(t) ==
  /\ dpc[t] = "idle"
  /\ dcalls[t] < MaxDevCalls
  /\ dcalls' = [dcalls EXCEPT ![t] = @ + 1]
  /\ dpc' = [dpc EXCEPT ![t] = "lock"]
  /\ dres' = [dres EXCEPT ![t] = None]
  /\ dlog' = [dlog EXCEPT ![t] = NoDlog]
  /\ UNCHANGED <<DEVICE, dev_lock, probes, ok_probes, handed>>

\* The mutex after the MutexGuard `device` is dropped on return.
\* Mutation: the guard is leaked.
Unlock_leaked(t) == t
Unlock(t) == NoThread

\* let mut device = CUDA_DEVICE.lock().unwrap();
\* Mutation: a call that sees a handle in the slot does not take the mutex.
get_device_lock_fast(t) ==
  /\ dpc[t] = "lock"
  /\ IF IsSome(DEVICE)
       THEN UNCHANGED dev_lock
       ELSE dev_lock = NoThread /\ dev_lock' = t
  /\ dpc' = [dpc EXCEPT ![t] = "check"]
  /\ UNCHANGED <<DEVICE, dres, dcalls, probes, ok_probes, handed, dlog>>
get_device_lock(t) ==
  /\ dpc[t] = "lock"
  /\ dev_lock = NoThread
  /\ dev_lock' = t
  /\ dpc' = [dpc EXCEPT ![t] = "check"]
  /\ UNCHANGED <<DEVICE, dres, dcalls, probes, ok_probes, handed, dlog>>

\* if let Some(device) = device.as_ref() { return Ok(device.clone()); }
\* The guard is dropped on return.
get_device_cached(t) ==
  /\ dpc[t] = "check"
  /\ dev_lock = t
  /\ IsSome(DEVICE)
  /\ dres' = [dres EXCEPT ![t] = Some(Ok(Unwrap(DEVICE)))]
  /\ handed' = handed \cup {Unwrap(DEVICE)}
  /\ dlog' = [dlog EXCEPT ![t] = [probed |-> FALSE, cached |-> TRUE]]
  /\ dev_lock' = Unlock(t)
  /\ dpc' = [dpc EXCEPT ![t] = "ret"]
  /\ UNCHANGED <<DEVICE, dcalls, probes, ok_probes>>

\* The slot after a probe: `?` returns a probe error before the store, so
\* only a created device is written (*device = Some(res.clone())).
\* Mutations: the result is never stored; a failed probe is stored too.
StoreProbed_forget(slot, kind, n) == slot
StoreProbed_poison(slot, kind, n) == Some(DeviceOf(kind, n))
StoreProbed(slot, kind, n) ==
  IF kind = "Err" THEN slot ELSE Some(DeviceOf(kind, n))

\* The probe is reached only past `if let Some(device) = device.as_ref()`.
\* Mutation: the cached handle is not looked at.
needs_probe_always(slot) == TRUE
needs_probe(slot) == ~IsSome(slot)

\* let res = Device::cuda_if_available(0)?;  *device = Some(res.clone());
\* return Ok(res);          (`?` returns the error with the slot untouched)
get_device_probe(t, kind) ==
  /\ dpc[t] = "check"
  /\ dev_lock = t
  /\ needs_probe(DEVICE)
  /\ probes' = probes + 1
  /\ dlog' = [dlog EXCEPT ![t] = [probed |-> TRUE, cached |-> FALSE]]
  /\ DEVICE' = StoreProbed(DEVICE, kind, probes + 1)
  /\ IF kind = "Err"
       THEN /\ dres' = [dres EXCEPT ![t] = Some(Err(ErrDevice))]
            /\ UNCHANGED <<ok_probes, handed>>
       ELSE LET res == DeviceOf(kind, probes + 1) IN
            /\ ok_probes' = ok_probes + 1
            /\ dres' = [dres EXCEPT ![t] = Some(Ok(res))]
            /\ handed' = handed \cup {res}
  /\ dev_lock' = Unlock(t)
  /\ dpc' = [dpc EXCEPT ![t] = "ret"]
  /\ UNCHANGED dcalls

\* The caller takes the Result; the thread may call again.
get_device_return(t) ==
  /\ dpc[t] = "ret"
  /\ dpc' = [dpc EXCEPT ![t] = "idle"]
  /\ UNCHANGED <<DEVICE, dev_lock, dres, dcalls, probes, ok_probes,
                 handed, dlog>>

get_device(t) ==
  \/ get_device_call(t)
  \/ get_device_lock(t)
  \/ get_device_cached(t)
  \/ \E kind \in ProbeKinds : get_device_probe(t, kind)
  \/ get_device_return(t)


\* =================================================================
\* Request, prompt formatter, normaliser
\* =================================================================
MaxTopLogprobs == 2   \* largest top_logprobs value a caller passes

Hi == <<"H", "i">>
MessageHistories ==
  { << [role |-> "user", content |-> Hi] >>,
    << [role |-> "assistant", content |-> Hi] >>,
    << >> }

\* Values of Request.logit_bias and Request.n_choices.
LogitBiases == {None, Some([tok |-> 5, bias |-> 1])}
ChoiceCounts == {1, 2}

\* pub struct Request: the values a caller can put in each field.
AllRequests ==
  [ messages : MessageHistories,
    model : {"mistral"},
    logit_bias : LogitBiases,
    logprobs : BOOLEAN,
    top_logprobs : {None} \cup {Some(n) : n \in 0..MaxTopLogprobs},
    max_tokens : {None},
    n_choices : ChoiceCounts,
    presence_penalty : {None},
    repetition_penalty : {None},
    stop_token_ids : {None, Some(<<7, 3>>)},
    temperature : {None},
    top_p : {None},
    top_k : {None} ]

\* The groups of optional fields a caller has set: the log-probability
\* fields, the stop tokens, the fields the gateway does not forward.
SetGroups(r) ==
  (IF r.logprobs \/ r.top_logprobs # None THEN {"logprobs"} ELSE {})
    \cup (IF r.stop_token_ids # None THEN {"stop"} ELSE {})
    \cup (IF r.logit_bias # None \/ r.n_choices # 1 THEN {"unused"} ELSE {})

\* The Requests callers pass: any history, and values in at most one of the
\* groups of optional fields.
Requests == {r \in AllRequests : Cardinality(SetGroups(r)) <= 1}

\* Conversation::get_prompt(messages, add_generation_prompt): the history must
\* be non-empty and alternate user / assistant, starting with user.
RoleAt(i) == IF i % 2 = 1 THEN "user" ELSE "assistant"
WellFormed(messages) ==
  /\ Len(messages) > 0
  /\ \A i \in 1..Len(messages) : messages[i].role = RoleAt(i)

RECURSIVE Render(_)
Render(messages) ==
  IF messages = <<>> THEN <<>>
  ELSE LET m == Head(messages) IN
       (IF m.role = "user" THEN <<"[">> \o m.content \o <<"]">> ELSE m.content)
         \o Render(Tail(messages))

TemplateError == [text |-> <<"b", "a", "d">>]

get_prompt(messages, add_generation_prompt) ==
  IF WellFormed(messages)
    THEN Ok(Render(messages) \o (IF add_generation_prompt THEN <<">">> ELSE <<>>))
    ELSE Err(TemplateError)

\* match .. { Err(e) => return Err(PyValueError::new_err(e.to_string())), .. }
\* Mutation: the error arm is missing and the call goes on.
rejected_never(prompt) == FALSE
rejected(prompt) == prompt.tag = "Err"

\* e.to_string(): the Display text of an error value.
to_string(e) == e.text

\* Option::unwrap_or
unwrap_or(o, d) == IF IsSome(o) THEN Unwrap(o) ELSE d

\* request.stop_token_ids.as_ref().map(|x| StopTokens::Ids(x.to_vec()))
\* Mutation: the ids are copied back to front.
Reversed(x) == [i \in 1..Len(x) |-> x[Len(x) + 1 - i]]
stop_toks_of_reversed(request) ==
  IF IsSome(request.stop_token_ids)
    THEN Some([kind |-> "Ids", ids |-> Reversed(Unwrap(request.stop_token_ids))])
    ELSE None
stop_toks_of(request) ==
  IF IsSome(request.stop_token_ids)
    THEN Some([kind |-> "Ids", ids |-> Unwrap(request.stop_token_ids)])
    ELSE None

\* top_n_logprobs: request.top_logprobs.unwrap_or(1)
\* Mutation: the default is applied only when log-probabilities are asked for.
top_n_logprobs_of_gated(request) ==
  IF request.logprobs THEN unwrap_or(request.top_logprobs, 1)
  ELSE unwrap_or(request.top_logprobs, 0)
top_n_logprobs_of(request) == unwrap_or(request.top_logprobs, 1)

\* let model_request = _Request { .. }
\* Mutations: the sender of the channel created last is attached instead of
\* the call's own; a logit bias switches log-probabilities on.
model_request_of_latest(request, prompt, tx) ==
  [ prompt |-> prompt,
    sampling_params |->
      [ temperature |-> request.temperature,
        top_k |-> request.top_k,
        top_p |-> request.top_p,
        top_n_logprobs |-> top_n_logprobs_of(request),
        repeat_penalty |-> request.repetition_penalty,
        presence_penalty |-> request.presence_penalty,
        max_len |-> request.max_tokens,
        stop_toks |-> stop_toks_of(request) ],
    response |-> next_chan,
    return_logprobs |-> request.logprobs ]
model_request_of_biased(request, prompt, tx) ==
  [ prompt |-> prompt,
    sampling_params |->
      [ temperature |-> request.temperature,
        top_k |-> request.top_k,
        top_p |-> request.top_p,
        top_n_logprobs |-> top_n_logprobs_of(request),
        repeat_penalty |-> request.repetition_penalty,
        presence_penalty |-> request.presence_penalty,
        max_len |-> request.max_tokens,
        stop_toks |-> stop_toks_of(request) ],
    response |-> tx,
    return_logprobs |-> request.logprobs \/ IsSome(request.logit_bias) ]
model_request_of(request, prompt, tx) ==
  [ prompt |-> prompt,
    sampling_params |->
      [ temperature |-> request.temperature,
        top_k |-> request.top_k,
        top_p |-> request.top_p,
        top_n_logprobs |-> top_n_logprobs_of(request),
        repeat_penalty |-> request.repetition_penalty,
        presence_penalty |-> request.presence_penalty,
        max_len |-> request.max_tokens,
        stop_toks |-> stop_toks_of(request) ],
    response |-> tx,
    return_logprobs |-> request.logprobs ]

\* =================================================================
\* Responses and their serialisation
\* =================================================================
Alphabet == {"a", "\"", "\\"}

RECURSIVE TextsUpTo(_)
TextsUpTo(n) ==
  IF n = 0 THEN {<<>>}
  ELSE LET shorter == TextsUpTo(n - 1) IN
       shorter \cup {Append(s, c) : s \in shorter, c \in Alphabet}

Payloads == {[text |-> s] : s \in TextsUpTo(MaxTextLen)}
EngineErrors == {[text |-> <<"o", "o", "m">>], [text |-> <<>>]}

Done(payload) == [tag |-> "Done", val |-> payload]
Error(e) == [tag |-> "Error", val |-> e]
Responses == {Done(p) : p \in Payloads} \cup {Error(e) : e \in EngineErrors}

\* serde_json string escaping of the characters of Alphabet.
RECURSIVE Escape(_)
Escape(s) ==
  IF s = <<>> THEN <<>>
  ELSE (IF Head(s) \in {"\"", "\\"} THEN <<"\\", Head(s)>> ELSE <<Head(s)>>)
         \o Escape(Tail(s))

JsonOpen == <<"{", "\"", "t", "e", "x", "t", "\"", ":", "\"">>
JsonClose == <<"\"", "}">>

\* serde_json::to_string(&response)
to_json(payload) == JsonOpen \o Escape(payload.text) \o JsonClose

\* Reads a JSON string body up to its closing quote: [ok, text, rest].
RECURSIVE ReadString(_, _)
ReadString(s, acc) ==
  IF s = <<>> THEN [ok |-> FALSE, text |-> acc, rest |-> <<>>]
  ELSE IF Head(s) = "\"" THEN [ok |-> TRUE, text |-> acc, rest |-> Tail(s)]
  ELSE IF Head(s) = "\\"
    THEN IF Len(s) >= 2 /\ s[2] \in {"\"", "\\"}
           THEN ReadString(Tail(Tail(s)), Append(acc, s[2]))
           ELSE [ok |-> FALSE, text |-> acc, rest |-> <<>>]
  ELSE ReadString(Tail(s), Append(acc, Head(s)))

\* serde_json::from_str: Some(payload), or None when the text does not parse.
from_json(s) ==
  IF Len(s) >= Len(JsonOpen) /\ SubSeq(s, 1, Len(JsonOpen)) = JsonOpen
    THEN LET r == ReadString(SubSeq(s, Len(JsonOpen) + 1, Len(s)), <<>>) IN
         IF r.ok /\ r.rest = <<"}">> THEN Some([text |-> r.text]) ELSE None
    ELSE None

\* What the call hands back: PyResult<String>, or the panic of an unwrap().
PyOk(s) == [tag |-> "Ok", exc |-> "", val |-> s]
PyValueError(msg) == [tag |-> "Err", exc |-> "PyValueError", val |-> msg]
Panic == [tag |-> "Panic", exc |-> "PanicException", val |-> <<>>]

\* match response { Response::Error(e) => Err(..), Response::Done(r) => Ok(..) }
\* Mutations: the engine's message is replaced by a fixed text; the payload is
\* written between the quotes as it is.
match_response_generic(response) ==
  IF response.tag = "Error"
    THEN PyValueError(<<"e", "r", "r">>)
    ELSE PyOk(to_json(response.val))
match_response_raw(response) ==
  IF response.tag = "Error"
    THEN PyValueError(to_string(response.val))
    ELSE PyOk(JsonOpen \o response.val.text \o JsonClose)
match_response(response) ==
  IF response.tag = "Error"
    THEN PyValueError(to_string(response.val))
    ELSE PyOk(to_json(response.val))


\* =================================================================
\* Gateway: MistralRunner::add_request
\* =================================================================
NoLog == [sends |-> 0, queued |-> 0, recvs |-> 0, resp |-> None, fmt |-> None]

GwInit ==
  /\ pc = [t \in Threads |-> "idle"]
  /\ gil = NoThread
  /\ calls = [t \in Threads |-> 0]
  /\ next_chan = 0
  /\ rx = [t \in Threads |-> 0]
  /\ chans = << >>
  /\ req = [t \in Threads |-> None]
  /\ mreq = [t \in Threads |-> None]
  /\ outcome = [t \in Threads |-> None]
  /\ log = [t \in Threads |-> NoLog]
  /\ queue = << >>
  /\ queue_open = TRUE
  /\ inflight = {}

\* The channel map without channel c (both halves gone).
Discard(ch, c) == [k \in DOMAIN ch \ {c} |-> ch[k]]
\* The sending half of channel c is dropped.
DropTx(ch, c) ==
  IF c \in DOMAIN ch THEN [ch EXCEPT ![c].tx = FALSE] ELSE ch
\* A fresh channel c: empty, its sending half alive.  (reply_to records the
\* request the engine was answering when it sent on the channel.)
WithChannel(ch, c) ==
  [k \in DOMAIN ch \cup {c} |->
     IF k = c THEN [buf |-> <<>>, tx |-> TRUE, reply_to |-> None] ELSE ch[k]]

\* The interop lock after the closure of Python::with_gil ends, by return
\* or by unwinding.
\* Mutation: the lock is kept.
ReleaseGil_kept(t) == t
ReleaseGil(t) == NoThread

\* let (tx, rx) = channel();
add_request_call(t) ==
  /\ pc[t] = "idle"
  /\ calls[t] < MaxCalls
  /\ calls' = [calls EXCEPT ![t] = @ + 1]
  /\ next_chan' = next_chan + 1
  /\ rx' = [rx EXCEPT ![t] = next_chan + 1]
  /\ chans' = WithChannel(chans, next_chan + 1)
  /\ outcome' = [outcome EXCEPT ![t] = None]
  /\ log' = [log EXCEPT ![t] = NoLog]
  /\ pc' = [pc EXCEPT ![t] = "gil"]
  /\ UNCHANGED <<gil, req, mreq, queue, queue_open, inflight>>

\* Python::with_gil waits until no other thread holds the interop lock.
\* Mutation: it does not wait.
gil_free_always(g) == TRUE
gil_free(g) == g = NoThread

\* Python::with_gil(|py| { .. }): waits until the lock is free.
add_request_with_gil(t) ==
  /\ pc[t] = "gil"
  /\ gil_free(gil)
  /\ gil' = t
  /\ pc' = [pc EXCEPT ![t] = "build"]
  /\ UNCHANGED <<calls, next_chan, rx, chans, req, mreq, outcome, log,
                 queue, queue_open, inflight>>

\* Lines 81-104: borrow the request, map the stop tokens, format the prompt
\* (returning its error at once), build the _Request around tx.
add_request_build(t, request) ==
  /\ pc[t] = "build"
  /\ gil = t
  /\ LET prompt == get_prompt(request.messages, TRUE) IN
     /\ log' = [log EXCEPT ![t].fmt = Some(prompt)]
     /\ IF rejected(prompt)
          THEN /\ outcome' = [outcome EXCEPT ![t] =
                                Some(PyValueError(to_string(prompt.val)))]
               /\ gil' = ReleaseGil(t)
               /\ chans' = Discard(chans, rx[t])
               /\ rx' = [rx EXCEPT ![t] = 0]
               /\ pc' = [pc EXCEPT ![t] = "done"]
               /\ UNCHANGED <<req, mreq>>
          ELSE /\ req' = [req EXCEPT ![t] = Some(request)]
               /\ mreq' = [mreq EXCEPT ![t] =
                             Some(model_request_of(request, prompt.val, rx[t]))]
               /\ pc' = [pc EXCEPT ![t] = "send"]
               /\ UNCHANGED <<outcome, gil, chans, rx>>
  /\ UNCHANGED <<calls, next_chan, queue, queue_open, inflight>>

\* sender.send(model_request) on an open queue.
\* Mutation: the request is submitted a second time.
send_twice(q, r) == Append(Append(q, r), r)
send(q, r) == Append(q, r)

\* let sender = self.runner.get_sender(); sender.send(model_request).unwrap();
\* A send on a queue whose Receiver is gone returns Err, and unwrap() panics:
\* the request (with tx) and rx are dropped while unwinding.
add_request_send(t) ==
  /\ pc[t] = "send"
  /\ gil = t
  /\ IF queue_open
       THEN /\ queue' = send(queue, Unwrap(mreq[t]))
            /\ log' = [log EXCEPT ![t].sends = @ + 1,
                                  ![t].queued = @ + Len(queue') - Len(queue)]
            /\ pc' = [pc EXCEPT ![t] = "recv"]
            /\ UNCHANGED <<outcome, gil, chans, rx, req, mreq>>
       ELSE /\ log' = [log EXCEPT ![t].sends = @ + 1]
            /\ outcome' = [outcome EXCEPT ![t] = Some(Panic)]
            /\ gil' = ReleaseGil(t)
            /\ chans' = Discard(chans, rx[t])
            /\ rx' = [rx EXCEPT ![t] = 0]
            /\ req' = [req EXCEPT ![t] = None]
            /\ mreq' = [mreq EXCEPT ![t] = None]
            /\ pc' = [pc EXCEPT ![t] = "done"]
            /\ UNCHANGED queue
  /\ UNCHANGED <<calls, next_chan, queue_open, inflight>>

\* rx.recv() returns when a message is in the channel or its sender is gone.
\* Mutation: the wait also ends on its own (a timeout).
recv_ready_timeout(ch) == TRUE
recv_ready(ch) == ch.buf # <<>> \/ ~ch.tx

\* let response = rx.recv().unwrap(); match response { .. }
\* recv blocks while the channel is empty and its sender alive; it returns
\* Err, and unwrap() panics, when the sender is gone and nothing was sent.
add_request_recv(t) ==
  /\ pc[t] = "recv"
  /\ gil = t
  /\ LET ch == chans[rx[t]] IN
     /\ recv_ready(ch)
     /\ IF ch.buf # <<>>
          THEN /\ outcome' = [outcome EXCEPT ![t] = Some(match_response(Head(ch.buf)))]
               /\ log' = [log EXCEPT ![t].recvs = @ + 1, ![t].resp = Some(Head(ch.buf))]
          ELSE /\ outcome' = [outcome EXCEPT ![t] = Some(Panic)]
               /\ UNCHANGED log
  /\ gil' = ReleaseGil(t)
  /\ chans' = Discard(chans, rx[t])
  /\ rx' = [rx EXCEPT ![t] = 0]
  /\ req' = [req EXCEPT ![t] = None]
  /\ mreq' = [mreq EXCEPT ![t] = None]
  /\ pc' = [pc EXCEPT ![t] = "done"]
  /\ UNCHANGED <<calls, next_chan, queue, queue_open, inflight>>

\* The caller takes the outcome and the call's frame is gone; the thread may
\* call again.
add_request_return(t) ==
  /\ pc[t] = "done"
  /\ pc' = [pc EXCEPT ![t] = "idle"]
  /\ outcome' = [outcome EXCEPT ![t] = None]
  /\ log' = [log EXCEPT ![t] = NoLog]
  /\ UNCHANGED <<gil, calls, next_chan, rx, chans, req, mreq,
                 queue, queue_open, inflight>>

\* One step of a call whose Request is one of the set given.
add_request_of(t, requests) ==
  \/ add_request_call(t)
  \/ add_request_with_gil(t)
  \/ \E request \in requests : add_request_build(t, request)
  \/ add_request_send(t)
  \/ add_request_recv(t)
  \/ add_request_return(t)

add_request(t) == add_request_of(t, Requests)

\* =================================================================
\* Engine: the consumer of the queue
\* =================================================================
\* The engine takes the oldest request off the queue.
engine_take ==
  /\ queue_open
  /\ queue # <<>>
  /\ inflight' = inflight \cup {Head(queue)}
  /\ queue' = Tail(queue)
  /\ UNCHANGED <<pc, gil, calls, next_chan, rx, chans, req, mreq, outcome, log,
                 queue_open>>

\* The engine answers a request it holds, in any order: request.response.send(r),
\* after which the request and its sender are dropped.
engine_reply(r, response) ==
  /\ r \in inflight
  /\ inflight' = inflight \ {r}
  /\ chans' = IF r.response \in DOMAIN chans
                THEN [chans EXCEPT ![r.response].buf = Append(@, response),
                                   ![r.response].tx = FALSE,
                                   ![r.response].reply_to = Some(r)]
                ELSE chans
  /\ UNCHANGED <<pc, gil, calls, next_chan, rx, req, mreq, outcome, log,
                 queue, queue_open>>

\* The engine drops a request it holds without answering it.
engine_drop(r) ==
  /\ r \in inflight
  /\ inflight' = inflight \ {r}
  /\ chans' = DropTx(chans, r.response)
  /\ UNCHANGED <<pc, gil, calls, next_chan, rx, req, mreq, outcome, log,
                 queue, queue_open>>

RECURSIVE DropAllTx(_, _)
DropAllTx(ch, q) ==
  IF q = <<>> THEN ch ELSE DropAllTx(DropTx(ch, Head(q).response), Tail(q))

\* The engine's Receiver goes away: the queue is closed and what was still
\* queued is dropped.
engine_close ==
  /\ queue_open
  /\ queue_open' = FALSE
  /\ chans' = DropAllTx(chans, queue)
  /\ queue' = <<>>
  /\ UNCHANGED <<pc, gil, calls, next_chan, rx, req, mreq, outcome, log, inflight>>

engine ==
  \/ engine_take
  \/ \E r \in inflight : \E response \in Responses : engine_reply(r, response)
  \/ \E r \in inflight : engine_drop(r)
  \/ engine_close

\* =================================================================
\* Specifications
\* =================================================================
Init == DevInit /\ GwInit

\* The gateway and the engine.
Next ==
  \/ \E t \in Threads : add_request(t) /\ UNCHANGED dev_vars
  \/ engine /\ UNCHANGED dev_vars

Spec == Init /\ [][Next]_vars

\* The device resolver.
DevNext == \E t \in Threads : get_device(t) /\ UNCHANGED gw_vars

DevSpec == Init /\ [][DevNext]_vars


\* =================================================================
\* Properties of the device resolver (DevSpec)
\* =================================================================
Returned(t) == dpc[t] = "ret" /\ IsSome(dres[t])
ReturnedOk(t) == Returned(t) /\ Unwrap(dres[t]).tag = "Ok"
ReturnedErr(t) == Returned(t) /\ Unwrap(dres[t]).tag = "Err"

Finished(t) == pc[t] = "done" /\ IsSome(outcome[t])
Formatted(t) == IsSome(log[t].fmt) /\ Unwrap(log[t].fmt).tag = "Ok"
Rejected(t) == IsSome(log[t].fmt) /\ Unwrap(log[t].fmt).tag = "Err"
Got(t, tag) == IsSome(log[t].resp) /\ Unwrap(log[t].resp).tag = tag
\* The requests of the call of t that the engine side holds.
Submitted(t) ==
  {queue[i] : i \in {j \in 1..Len(queue) : queue[j].response = rx[t]}}
    \cup {r \in inflight : r.response = rx[t]}
OOM == <<"o", "o", "m">>

\* C3: when the Response of a call is Error(msg), the call fails with a
\* failure whose message text is msg, after exactly one submission to the
\* engine queue.
C3_ErrorSurfaced ==
  \A t \in Threads :
    (Finished(t) /\ Got(t, "Error")) =>
      /\ Unwrap(outcome[t]).tag = "Err"
      /\ Unwrap(outcome[t]).exc = "PyValueError"
      /\ Unwrap(outcome[t]).val = Unwrap(log[t].resp).val.text
      /\ log[t].sends = 1
      /\ log[t].queued = 1

\* A call has failed with the engine's "oom".
C3_Witness ==
  \E t \in Threads :
    /\ Finished(t)
    /\ log[t].resp = Some(Error([text |-> OOM]))
    /\ Unwrap(outcome[t]).val = OOM

\* C4: when the Response of a call is Done(payload), the call succeeds with a
\* string that deserialises to a value equal to payload.
C4_DoneRoundTrip ==
  \A t \in Threads :
    (Finished(t) /\ Got(t, "Done")) =>
      /\ Unwrap(outcome[t]).tag = "Ok"
      /\ from_json(Unwrap(outcome[t]).val) = Some(Unwrap(log[t].resp).val)

\* A call has returned a payload whose text needs escaping.
C4_Witness ==
  \E t \in Threads :
    /\ Finished(t)
    /\ Got(t, "Done")
    /\ Unwrap(log[t].resp).val.text \in {<<"\"">>, <<"\\">>}
    /\ Unwrap(outcome[t]).tag = "Ok"

\* C5: when the formatter rejects the history, the call fails at once with
\* the formatter's message; it submits nothing and never waits for a reply.
C5_RejectedNeverSubmitted ==
  \A t \in Threads :
    Rejected(t) =>
      /\ pc[t] \in {"done", "idle"}
      /\ outcome[t] = Some(PyValueError(Unwrap(log[t].fmt).val.text))
      /\ log[t].sends = 0
      /\ log[t].queued = 0
      /\ log[t].recvs = 0
      /\ mreq[t] = None
      /\ rx[t] = 0

\* A call was rejected by the formatter while the queue was still open.
C5_Witness ==
  \E t \in Threads :
    /\ Finished(t)
    /\ Rejected(t)
    /\ queue_open
    /\ Unwrap(outcome[t]).val = TemplateError.text

\* C6: a call whose submission is refused by a closed queue returns an
\* ordinary failure value.
C6_SendFailureIsError ==
  \A t \in Threads :
    (Finished(t) /\ log[t].sends = 1 /\ log[t].queued = 0) =>
      Unwrap(outcome[t]).tag = "Err"

\* C7: a call whose reply channel is closed by the engine without a Response
\* returns an ordinary failure value.
C7_RecvFailureIsError ==
  \A t \in Threads :
    (Finished(t) /\ log[t].queued = 1 /\ log[t].recvs = 0) =>
      Unwrap(outcome[t]).tag = "Err"

\* C8 as stated: a call whose prompt was formatted puts exactly one request
\* on the queue, consumes exactly one Response and ends in a success or a
\* failure.
C8_ExactlyOneEach ==
  \A t \in Threads :
    (Finished(t) /\ Formatted(t)) =>
      /\ log[t].queued = 1
      /\ log[t].recvs = 1
      /\ Unwrap(outcome[t]).tag \in {"Ok", "Err"}

\* C8 amended: a call whose prompt was formatted makes exactly one send; it
\* puts one request on the queue if the queue takes it and none otherwise;
\* it consumes one Response if the engine sent one and none otherwise; it
\* ends in one outcome: a success or failure exactly when it consumed a
\* Response, a panic exactly when it did not.
C8_AtMostOneEach ==
  \A t \in Threads :
    /\ log[t].sends <= 1
    /\ log[t].queued <= log[t].sends
    /\ log[t].recvs <= log[t].queued
    /\ Cardinality(Submitted(t)) <= 1
    /\ (Finished(t) /\ Formatted(t)) =>
         /\ log[t].sends = 1
         /\ log[t].recvs = 1 <=> Unwrap(outcome[t]).tag \in {"Ok", "Err"}
         /\ log[t].recvs = 0 <=> Unwrap(outcome[t]).tag = "Panic"
         /\ Got(t, "Done") <=> Unwrap(outcome[t]).tag = "Ok"
         /\ Got(t, "Error") <=> Unwrap(outcome[t]).tag = "Err"

\* A call has ended with a result after one submission and one Response.
C8_Witness ==
  \E t \in Threads :
    /\ Finished(t)
    /\ Formatted(t)
    /\ log[t].queued = 1
    /\ log[t].recvs = 1
    /\ Unwrap(outcome[t]).tag = "Ok"

\* C10: top_n_logprobs of the request built, and of the request submitted, is
\* the caller's top_logprobs when given and 1 otherwise, with logprobs true
\* or false.
C10_TopNLogprobs ==
  \A t \in Threads :
    IsSome(mreq[t]) =>
      LET want == IF Unwrap(req[t]).top_logprobs = None
                    THEN 1 ELSE Unwrap(req[t]).top_logprobs[1] IN
      /\ Unwrap(mreq[t]).sampling_params.top_n_logprobs = want
      /\ \A r \in Submitted(t) : r.sampling_params.top_n_logprobs = want

\* A request without top_logprobs and without logprobs is on the queue with
\* top_n_logprobs 1, and one with top_logprobs 0 could be too.
C10_Witness ==
  \E t \in Threads :
    /\ IsSome(req[t])
    /\ Unwrap(req[t]).top_logprobs = None
    /\ ~Unwrap(req[t]).logprobs
    /\ \E r \in Submitted(t) : r.sampling_params.top_n_logprobs = 1


\* =================================================================
\* Liveness of the gateway (LiveSpec)
\* =================================================================
\* Requests that differ in their message history only.
LiveRequests ==
  {r \in Requests : /\ r.logit_bias = None
                    /\ r.n_choices = 1
                    /\ r.stop_token_ids = None
                    /\ r.top_logprobs = None
                    /\ ~r.logprobs}

\* An engine that answers: it takes every request and sends one Response for
\* each request it has taken.
engine_answers ==
  \/ engine_take
  \/ \E r \in inflight : \E response \in Responses : engine_reply(r, response)

LiveNext ==
  \/ \E t \in Threads : add_request_of(t, LiveRequests) /\ UNCHANGED dev_vars
  \/ engine_answers /\ UNCHANGED dev_vars

\* Every calling thread keeps running and the engine keeps working.
LiveSpec ==
  /\ Init
  /\ [][LiveNext]_vars
  /\ \A t \in Threads :
       WF_vars(add_request_of(t, LiveRequests) /\ UNCHANGED dev_vars)
  /\ WF_vars(engine_answers /\ UNCHANGED dev_vars)

\* C9: with an engine that answers every request it receives and fair
\* scheduling, every call that was started, also one started while another
\* call is under way, ends with a result or an error for its caller.
C9_EveryCallReturns ==
  \A t \in Threads :
    (pc[t] \in {"gil", "build", "send", "recv"}) ~>
      (Finished(t) /\ Unwrap(outcome[t]).tag \in {"Ok", "Err"})

\* Two calls were started together: the one started second has its result
\* while the one started first is still waiting for the interop lock.
C9_Witness ==
  \E t, u \in Threads :
    /\ t # u
    /\ Finished(t)
    /\ Unwrap(outcome[t]).tag = "Ok"
    /\ pc[u] = "gil"
    /\ rx[u] = 1
    /\ next_chan = 2

\* =================================================================
\* Further properties of the gateway (Spec)
\* =================================================================
\* The requests of Submitted(t), and the one the call is about to send.
Built(t) == Submitted(t) \cup {Unwrap(mreq[t])}

\* C11: with a stop-token-id list the stop condition of the request built and
\* submitted is the explicit-id form with the same ids, in the same order;
\* without a list the stop condition is unset.
C11_StopTokens ==
  \A t \in Threads :
    IsSome(mreq[t]) =>
      \A r \in Built(t) :
        LET given == Unwrap(req[t]).stop_token_ids
            stop == r.sampling_params.stop_toks IN
        IF given = None
          THEN stop = None
          ELSE /\ IsSome(stop)
               /\ Unwrap(stop).kind = "Ids"
               /\ Len(Unwrap(stop).ids) = Len(Unwrap(given))
               /\ \A i \in 1..Len(Unwrap(given)) :
                    Unwrap(stop).ids[i] = Unwrap(given)[i]

\* A request with the stop ids 7, 3 is with the engine, ids in that order.
C11_Witness ==
  \E t \in Threads :
    /\ IsSome(req[t])
    /\ Unwrap(req[t]).stop_token_ids = Some(<<7, 3>>)
    /\ \E r \in Submitted(t) :
         Unwrap(r.sampling_params.stop_toks).ids = <<7, 3>>

\* C12: a call that has ended, by a result, a formatter failure, an engine
\* Error or a transport failure, does not hold the interop lock; the lock is
\* held only by a call between with_gil and its outcome.
C12_GilReleased ==
  /\ \A t \in Threads : pc[t] \in {"idle", "gil", "done"} => gil # t
  /\ gil \in Threads \cup {NoThread}
  /\ gil # NoThread => pc[gil] \in {"build", "send", "recv"}

\* Calls have ended on two different error paths (formatter failure and
\* transport failure) and the lock is free.
C12_Witness ==
  \E t, u \in Threads :
    /\ Finished(t) /\ Rejected(t)
    /\ Finished(u) /\ Unwrap(outcome[u]).tag = "Panic"
    /\ gil = NoThread

\* C13: calls on distinct threads run without coordinating with each other:
\* while one call is blocked waiting for its reply, a second call that has
\* been started can go on (enter the closure, build and submit its request),
\* which is what makes a state with both requests submitted reachable.
C13_NoCoordination ==
  \A t, u \in Threads :
    (t # u /\ pc[t] = "recv" /\ pc[u] = "gil") =>
      ENABLED add_request_with_gil(u)

\* C14: reply channels are made fresh for each call and never shared: every
\* live channel belongs to one call in progress, a request carries the
\* channel of the call that built it, a channel holds at most the one
\* Response the engine sent in answer to that call's own request, and the
\* call's outcome is built from that Response.
Owned == {rx[t] : t \in Threads} \ {0}

C14_OwnReply ==
  /\ [](/\ DOMAIN chans = Owned
        /\ \A t, u \in Threads : (t # u /\ rx[t] # 0) => rx[t] # rx[u]
        /\ \A t \in Threads :
             /\ rx[t] <= next_chan
             /\ IsSome(mreq[t]) => Unwrap(mreq[t]).response = rx[t]
             /\ \A r \in Submitted(t) : pc[t] = "recv" /\ mreq[t] = Some(r)
             /\ rx[t] # 0 =>
                  /\ Len(chans[rx[t]].buf) <= 1
                  /\ chans[rx[t]].buf # <<>> =>
                       /\ pc[t] = "recv"
                       /\ chans[rx[t]].reply_to = mreq[t]
        /\ \A i \in 1..Len(queue) : queue[i].response \in Owned
        /\ \A r \in inflight : r.response \in Owned)
  /\ [][\A t \in Threads :
          /\ (rx'[t] # rx[t] /\ rx'[t] # 0) =>
               /\ rx'[t] > next_chan
               /\ chans'[rx'[t]].buf = <<>>
               /\ chans'[rx'[t]].tx
          /\ (pc[t] = "recv" /\ pc'[t] = "done" /\ chans[rx[t]].buf # <<>>) =>
               LET sent == Head(chans[rx[t]].buf)
                   out == Unwrap(outcome'[t]) IN
               /\ log'[t].resp = Some(sent)
               /\ sent.tag = "Done" =>
                    out.tag = "Ok" /\ from_json(out.val) = Some(sent.val)
               /\ sent.tag = "Error" =>
                    out.tag = "Err" /\ out.val = sent.val.text]_vars

\* Two calls are under way with a channel each; the engine has answered the
\* request of one of them and the Response is in that call's channel only.
C14_Witness ==
  \E t, u \in Threads :
    /\ t # u
    /\ pc[t] = "recv"
    /\ chans[rx[t]].buf # <<>>
    /\ chans[rx[t]].reply_to = mreq[t]
    /\ pc[u] = "gil"
    /\ rx[u] # 0
    /\ chans[rx[u]].buf = <<>>

Blocked(t) ==
  pc[t] = "recv" /\ chans[rx[t]].buf = <<>> /\ chans[rx[t]].tx

\* C15 as stated: a call that has submitted its request leaves the wait only
\* when a Response is in its reply channel.
C15_WaitEndsOnlyOnResponse ==
  [][\A t \in Threads :
       (pc[t] = "recv" /\ pc'[t] # "recv") => chans[rx[t]].buf # <<>>]_vars

\* C15 amended: a call that has submitted its request cannot go on while its
\* reply channel is empty and the sender alive; it leaves the wait only when
\* the engine has sent a Response (and ends in a result or failure) or has
\* dropped the sender without one (and ends in a panic).  Nothing else, no
\* timeout and no cancellation, ends the wait.
C15_WaitEndsOnReplyOrClose ==
  /\ [](\A t \in Threads : Blocked(t) => ~ENABLED add_request_recv(t))
  /\ [][\A t \in Threads :
          (pc[t] = "recv" /\ pc'[t] # "recv") =>
             /\ pc'[t] = "done"
             /\ chans[rx[t]].buf # <<>> \/ ~chans[rx[t]].tx
             /\ chans[rx[t]].buf # <<>> =>
                  Unwrap(outcome'[t]).tag \in {"Ok", "Err"}
             /\ chans[rx[t]].buf = <<>> => outcome'[t] = Some(Panic)]_vars

\* One call is blocked with its request taken by the engine, after the wait
\* of another call was ended by the engine dropping its request.
C15_Witness ==
  \E t, u \in Threads :
    /\ Blocked(t)
    /\ \E r \in inflight : r.response = rx[t]
    /\ Finished(u)
    /\ log[u].queued = 1
    /\ outcome[u] = Some(Panic)

\* =================================================================
\* Further properties of the device resolver (DevSpec, DevLiveSpec)
\* =================================================================
\* C16: the slot is write-once: once it holds a handle no call overwrites,
\* replaces or clears it, and at most one creation attempt succeeds.
C16_WriteOnce ==
  /\ [](/\ ok_probes <= 1
        /\ IsSome(DEVICE) => Unwrap(DEVICE).kind # "Err")
  /\ [][IsSome(DEVICE) => DEVICE' = DEVICE /\ ok_probes' = ok_probes]_vars

\* The handle written by the only probe is still in the slot after three
\* later calls have read it.
C16_Witness ==
  \E t, u \in Threads :
    /\ t # u
    /\ ReturnedOk(t) /\ dlog[t].cached /\ dcalls[t] = 2
    /\ ReturnedOk(u) /\ dlog[u].cached /\ dcalls[u] = 2
    /\ probes = 1
    /\ DEVICE = Some(Unwrap(dres[t]).val)

\* C17 as stated: once the handle has been written no call takes the mutex.
C17_ReadWithoutMutex ==
  IsSome(DEVICE) => dev_lock = NoThread

\* C17 amended: every call, also one made after the handle was written,
\* takes the mutex before it looks at the slot and gives it back when it
\* returns; a call that wants the mutex can go on exactly when no other call,
\* reader or prober, holds it.
C17_EveryCallLocks ==
  /\ [](\A t \in Threads :
          /\ dev_lock = t <=> dpc[t] = "check"
          /\ dpc[t] = "lock" =>
               (ENABLED get_device_lock(t) <=> dev_lock = NoThread))
  /\ [][\A t \in Threads :
          (dpc[t] # "ret" /\ dpc'[t] = "ret") =>
             dev_lock = t /\ dev_lock' = NoThread]_vars

\* With the handle in the slot, one reader holds the mutex and another
\* reader waits for it.
C17_Witness ==
  \E t, u \in Threads :
    /\ IsSome(DEVICE)
    /\ dpc[t] = "check" /\ dev_lock = t
    /\ dpc[u] = "lock"

\* The device resolver with every calling thread kept running.
DevLiveSpec ==
  /\ Init
  /\ [][DevNext]_vars
  /\ \A t \in Threads : WF_vars(get_device(t) /\ UNCHANGED gw_vars)

\* C20: a call whose probe fails leaves the slot empty and everything else of
\* the cached state as it was, returns the error and gives the mutex back;
\* every caller waiting for the mutex gets on and returns.
C20_FailedProbeReleases ==
  /\ [][\A t \in Threads :
          (dpc[t] = "check" /\ dpc'[t] = "ret"
             /\ Unwrap(dres'[t]).tag = "Err") =>
             /\ DEVICE = None /\ DEVICE' = None
             /\ ok_probes' = ok_probes /\ handed' = handed
             /\ dres'[t] = Some(Err(ErrDevice))
             /\ dev_lock = t /\ dev_lock' = NoThread]_vars
  /\ \A u \in Threads : (dpc[u] = "lock") ~> (dpc[u] = "ret")

\* A probe has failed and the other caller now holds the mutex, the slot
\* still empty.
C20_Witness ==
  \E t, u \in Threads :
    /\ ReturnedErr(t)
    /\ dpc[u] = "check" /\ dev_lock = u
    /\ DEVICE = None
    /\ probes = 1

\* =================================================================
\* Inert fields and the interop lock (Spec)
\* =================================================================
\* The requests that differ from request at most in logit_bias and n_choices.
Variants(request) ==
  {[request EXCEPT !.logit_bias = b, !.n_choices = n] :
     b \in LogitBiases, n \in ChoiceCounts}

\* C18: logit_bias and n_choices are inert: the request a call has built and
\* submitted is the one any Request differing only in these two fields would
\* have led to (same prompt, sampling parameters and return_logprobs).
C18_InertFields ==
  \A t \in Threads :
    IsSome(mreq[t]) =>
      \A other \in Variants(Unwrap(req[t])) :
        LET prompt == get_prompt(other.messages, TRUE)
            built == model_request_of(other, prompt.val, rx[t]) IN
        /\ ~rejected(prompt)
        /\ \A r \in Built(t) :
             /\ r.prompt = built.prompt
             /\ r.sampling_params = built.sampling_params
             /\ r.return_logprobs = built.return_logprobs

\* A request with a logit bias and two choices is with the engine, and it
\* does not ask for log-probabilities.
C18_Witness ==
  \E t \in Threads :
    /\ IsSome(req[t])
    /\ IsSome(Unwrap(req[t]).logit_bias)
    /\ Unwrap(req[t]).n_choices = 2
    /\ ~Unwrap(req[t]).logprobs
    /\ Cardinality(Variants(Unwrap(req[t]))) = 4
    /\ \E r \in Submitted(t) : ~r.return_logprobs

InClosure(t) == pc[t] \in {"build", "send", "recv"}

\* C19: a call holds the interop lock from reading the request, through the
\* submission and the wait for the reply, until its outcome is built; at most
\* one call is between taking the lock and its outcome, and while a call
\* waits for its reply nobody else can take the lock.
C19_LockHeldAcrossWait ==
  /\ [](/\ \A t \in Threads : InClosure(t) <=> gil = t
        /\ Cardinality({t \in Threads : InClosure(t)}) <= 1
        /\ \A t, u \in Threads :
             (pc[t] = "recv" /\ pc[u] = "gil") =>
                ~ENABLED add_request_with_gil(u)
        /\ \A t, u \in Threads :
             (t # u /\ Submitted(t) # {}) => Submitted(u) = {})
  /\ [][\A t \in Threads :
          (InClosure(t) /\ InClosure(t)') => gil' = gil]_vars

\* One call waits for its reply, its request with the engine, holding the
\* lock another started call is waiting for.
C19_Witness ==
  \E t, u \in Threads :
    /\ pc[t] = "recv"
    /\ gil = t
    /\ Submitted(t) # {}
    /\ pc[u] = "gil"

====
